---- MODULE Spec2Model ----
(***************************************************************************)
(* A model of form_generator.py (class SimpleExcelGenerator): the column   *)
(* classification and asset extraction of one CSV row, the grouping of     *)
(* rows per person, the projection of a group onto the spreadsheet         *)
(* template and the PDF report, and the Google Drive image download with   *)
(* its file cache.                                                         *)
(*                                                                         *)
(* Strings are sequences of one-character strings, so that concatenation,  *)
(* strip(), lower(), startswith(), substring tests and the two regular     *)
(* expressions of extract_assets_from_row are computed as Python computes  *)
(* them.                                                                   *)
(***************************************************************************)
EXTENDS Integers, Sequences, FiniteSets, TLC

VARIABLES
    pc,            \* position in the running top-level function
    columns,       \* df.columns: sequence of column names
    df,            \* the rows of the data frame: sequence of rows (sequences of cells)
    person_key,    \* the df['person_key'] column: one key per row
    extracted,     \* the list returned by the last extract_assets_from_row call
    grouped,       \* the ordered dict `grouped`: sequence of [key, info, assets]
    rowi,          \* number of rows consumed by the grouping loop
    gidx,          \* enumerate index of the group loop (1-based), 0 before it
    success,       \* the success counter
    outputs,       \* log of the group loop: one record per group attempted
    insert_images, \* self.insert_images
    enable_pdf,    \* self.enable_pdf
    fill,          \* the running / last fill_excel_template call
    pdf,           \* the running / last generate_pdf call
    dl,            \* the running / last download_image_from_gdrive call
    cache,         \* file ids whose <file_id>.png exists in temp_image_folder
    calls,         \* the download_image_from_gdrive calls that returned: {[url, result]}
    printed        \* the lines printed about the input file (lines 163, 166, 483, 580)

vars == <<pc, columns, df, person_key, extracted, grouped, rowi, gidx, success,
          outputs, insert_images, enable_pdf, fill, pdf, dl, cache, calls, printed>>

----------------------------------------------------------------------------
(* Characters and strings *)

UpperChars == <<"A","B","C","D","E","F","G","H","I","J","K","L","M",
                "N","O","P","Q","R","S","T","U","V","W","X","Y","Z">>

LowerChars == <<"a","b","c","d","e","f","g","h","i","j","k","l","m",
                "n","o","p","q","r","s","t","u","v","w","x","y","z">>

DigitChars == <<"0","1","2","3","4","5","6","7","8","9">>

IsUpper(c) == \E i \in DOMAIN UpperChars : UpperChars[i] = c

IsLowerCh(c) == \E i \in DOMAIN LowerChars : LowerChars[i] = c

IsDigit(c) == \E i \in DOMAIN DigitChars : DigitChars[i] = c

\* str.isspace / the regex class \s
IsSpace(c) == c \in {" ", "\t", "\n", "\r"}

\* the regex class \w, which decides \b
IsWordChar(c) == IsUpper(c) \/ IsLowerCh(c) \/ IsDigit(c) \/ c = "_"

LowerChar(c) ==
    IF IsUpper(c) THEN LowerChars[CHOOSE i \in DOMAIN UpperChars : UpperChars[i] = c]
    ELSE c

\* str.lower()
Lower(s) == [i \in DOMAIN s |-> LowerChar(s[i])]

\* `sub in s`
Contains(s, sub) ==
    \/ sub = << >>
    \/ \E i \in 1..(Len(s) - Len(sub) + 1) :
        s[i] = sub[1] /\ SubSeq(s, i, i + Len(sub) - 1) = sub

\* s.startswith(p)
StartsWith(s, p) == Len(s) >= Len(p) /\ SubSeq(s, 1, Len(p)) = p

\* s.strip()
Strip(s) ==
    LET ns == {i \in DOMAIN s : ~IsSpace(s[i])}
    IN  IF ns = {} THEN <<>>
        ELSE LET lo == CHOOSE i \in ns : \A j \in ns : i <= j
                 hi == CHOOSE i \in ns : \A j \in ns : i >= j
             IN  SubSeq(s, lo, hi)

\* s.replace(old, new) for a one-character old
RECURSIVE Replace(_, _, _)
Replace(s, old, new) ==
    IF s = <<>> THEN <<>>
    ELSE (IF Head(s) = old THEN new ELSE <<Head(s)>>) \o Replace(Tail(s), old, new)

\* str(n) for a natural number n
RECURSIVE Digits(_)
Digits(n) ==
    IF n < 10 THEN <<DigitChars[n + 1]>>
    ELSE Digits(n \div 10) \o <<DigitChars[(n % 10) + 1]>>

DigitValue(c) == (CHOOSE i \in DOMAIN DigitChars : DigitChars[i] = c) - 1

\* int(s) for a string of digits
RECURSIVE ParseInt(_)
ParseInt(s) ==
    IF s = <<>> THEN 0
    ELSE 10 * ParseInt(SubSeq(s, 1, Len(s) - 1)) + DigitValue(s[Len(s)])

\* A missing cell (pandas NaN) and Python's None.  Neither is a string: the
\* marker is no character, so no string operation produces it.
NaN == <<"<NaN>">>

None == <<"<None>">>

\* pd.notna(value)
notna(v) == v # NaN

\* str(value): a float NaN prints as "nan"
Str(v) == IF v = NaN THEN <<"n","a","n">> ELSE v

----------------------------------------------------------------------------
(* The two regular expressions of extract_assets_from_row *)

s_asset == <<"a","s","s","e","t">>

\* index of the first non-space character at or after j (Len(s)+1 if none)
SkipSpaces(s, j) ==
    LET stop == {k \in j..Len(s) : ~IsSpace(s[k])}
    IN  IF stop = {} THEN Len(s) + 1 ELSE CHOOSE k \in stop : \A m \in stop : k <= m

\* index just after the run of digits starting at k
SkipDigits(s, k) ==
    LET stop == {m \in k..Len(s) : ~IsDigit(s[m])}
    IN  IF stop = {} THEN Len(s) + 1 ELSE CHOOSE m \in stop : \A n \in stop : m <= n

\* "Asset\s+" matches at i (IGNORECASE); the digits, if any, start at SkipSpaces
AssetSpacesAt(s, i) ==
    /\ i + 5 <= Len(s)
    /\ s[i] \in {"A", "a"}
    /\ IsSpace(s[i + 5])
    /\ Lower(SubSeq(s, i, i + 4)) = s_asset

\* re.search(r'Asset\s+(\d+)', col, re.IGNORECASE): int(match.group(1)), or -1
SearchAssetNumber(col) ==
    LET hits == {i \in DOMAIN col :
                    /\ AssetSpacesAt(col, i)
                    /\ SkipSpaces(col, i + 5) <= Len(col)
                    /\ IsDigit(col[SkipSpaces(col, i + 5)])}
    IN  IF hits = {} THEN -1
        ELSE LET i == CHOOSE h \in hits : \A g \in hits : h <= g
                 k == SkipSpaces(col, i + 5)
             IN  ParseInt(SubSeq(col, k, SkipDigits(col, k) - 1))

\* MatchesAssetWord without the closing \b: "Asset 1" also matches in "Asset 12"
MatchesAssetWord_NoClosingBoundary(col, num) ==
    LET d == Digits(num)
    IN  \E i \in DOMAIN col :
            /\ i = 1 \/ ~IsWordChar(col[i - 1])
            /\ AssetSpacesAt(col, i)
            /\ LET k == SkipSpaces(col, i + 5)
                   e == k + Len(d)
               IN  /\ e - 1 <= Len(col)
                   /\ SubSeq(col, k, e - 1) = d

\* re.search(rf'\bAsset\s+{num}\b', col, re.IGNORECASE) finds a match
MatchesAssetWord(col, num) ==
    LET d == Digits(num)
    IN  \E i \in DOMAIN col :
            /\ i = 1 \/ ~IsWordChar(col[i - 1])
            /\ AssetSpacesAt(col, i)
            /\ LET k == SkipSpaces(col, i + 5)
                   e == k + Len(d)
               IN  /\ e - 1 <= Len(col)
                   /\ SubSeq(col, k, e - 1) = d
                   /\ e > Len(col) \/ ~IsWordChar(col[e])

----------------------------------------------------------------------------
(* extract_assets_from_row *)

s_no == <<"n","o">>

s_jenis == <<"j","e","n","i","s">>

s_upload == <<"u","p","l","o","a","d">>

s_foto == <<"f","o","t","o">>

s_http == <<"h","t","t","p">>

\* 'upload' in col_lower or 'foto' in col_lower
IsPhotoName(cl) == Contains(cl, s_upload) \/ Contains(cl, s_foto)

\* the set asset_numbers: the numbers N of "Asset N" in the names of the
\* columns that are not upload/foto columns
asset_numbers(cols) ==
    {SearchAssetNumber(cols[i]) :
        i \in {j \in DOMAIN cols : ~IsPhotoName(Lower(cols[j]))}} \ {-1}

\* sorted(S) for a finite set of integers
RECURSIVE Sorted(_)
Sorted(S) ==
    IF S = {} THEN <<>>
    ELSE LET m == CHOOSE x \in S : \A y \in S : x <= y
         IN  <<m>> \o Sorted(S \ {m})

\* The branch of the if/elif chain that reads column col while slot num is
\* processed: "no", "jenis", "foto", or "none" when the column is not read.
ColumnAttr(col, num) ==
    LET cl == Lower(col)
    IN  IF ~MatchesAssetWord(col, num) THEN "none"
        ELSE IF Contains(cl, s_no) /\ ~Contains(cl, s_upload) /\ ~Contains(cl, s_foto)
             THEN "no"
        ELSE IF Contains(cl, s_jenis) THEN "jenis"
        ELSE IF Contains(cl, s_upload) \/ Contains(cl, s_foto) THEN "foto"
        ELSE "none"

\* pd.notna(value) and str(value).strip() and not str(value).startswith('http')
IdAccepted(value) ==
    /\ notna(value)
    /\ Strip(Str(value)) # <<>>
    /\ ~StartsWith(Str(value), s_http)

\* pd.notna(value) and str(value).strip()
TextAccepted(value) == notna(value) /\ Strip(Str(value)) # <<>>

\* The inner `for col in columns` of one slot, from column i on: a later
\* accepted value of the same attribute overwrites an earlier one.
RECURSIVE ScanSlot(_, _, _, _, _)
ScanSlot(cols, row, num, i, acc) ==
    IF i > Len(cols) THEN acc
    ELSE LET a == ColumnAttr(cols[i], num)
             v == row[i]
             next ==
                IF a = "no" /\ IdAccepted(v) THEN [acc EXCEPT !.no = Strip(Str(v))]
                ELSE IF a = "jenis" /\ TextAccepted(v) THEN [acc EXCEPT !.jenis = Strip(Str(v))]
                ELSE IF a = "foto" /\ TextAccepted(v) THEN [acc EXCEPT !.foto = Strip(Str(v))]
                ELSE acc
         IN  ScanSlot(cols, row, num, i + 1, next)

NoneFound == [no |-> None, jenis |-> None, foto |-> None]

\* `x if x else ''`
OrEmpty(x) == IF x = None \/ x = <<>> THEN <<>> ELSE x

\* the dict appended to assets
AssetDict(acc) == [no |-> acc.no, jenis |-> OrEmpty(acc.jenis), foto |-> OrEmpty(acc.foto)]

\* `for num in sorted(asset_numbers)`, over the sorted sequence nums
RECURSIVE NumberedAssets(_, _, _)
NumberedAssets(cols, row, nums) ==
    IF nums = <<>> THEN <<>>
    ELSE LET acc == ScanSlot(cols, row, Head(nums), 1, NoneFound)
         IN  (IF acc.no # None /\ acc.no # <<>> THEN <<AssetDict(acc)>> ELSE <<>>)
             \o NumberedAssets(cols, row, Tail(nums))

\* the columns the fallback reads for each attribute
FallbackIdName(cl) ==
    Contains(cl, s_no) /\ Contains(cl, s_asset) /\ ~Contains(cl, s_upload) /\ ~Contains(cl, s_foto)

FallbackJenisName(cl) == Contains(cl, s_jenis) /\ Contains(cl, s_asset)

FallbackFotoName(cl) == (Contains(cl, s_upload) \/ Contains(cl, s_foto)) /\ Contains(cl, s_asset)

\* least element of a non-empty set of integers
Least(S) == CHOOSE x \in S : \A y \in S : x <= y

\* the fallback scan, run when the numbered scan produced no asset
FallbackAssets(cols, row) ==
    LET ids == {i \in DOMAIN cols : FallbackIdName(Lower(cols[i])) /\ IdAccepted(row[i])}
        js  == {i \in DOMAIN cols : FallbackJenisName(Lower(cols[i])) /\ notna(row[i])}
        fs  == {i \in DOMAIN cols : FallbackFotoName(Lower(cols[i])) /\ notna(row[i])}
    IN  IF ids = {} THEN <<>>
        ELSE << AssetDict([no    |-> Strip(Str(row[Least(ids)])),
                           jenis |-> IF js = {} THEN None ELSE Strip(Str(row[Least(js)])),
                           foto  |-> IF fs = {} THEN None ELSE Strip(Str(row[Least(fs)]))]) >>

\* extract_assets_from_row with the fallback run only for a header without
\* any "Asset N" name
extract_assets_from_row_UnnumberedOnly(cols, row) ==
    LET assets == NumberedAssets(cols, row, Sorted(asset_numbers(cols)))
    IN  IF asset_numbers(cols) # {} THEN assets ELSE FallbackAssets(cols, row)

\* lines 171-264: the numbered scan, and the fallback when it gave no asset
extract_assets_from_row(cols, row) ==
    LET assets == NumberedAssets(cols, row, Sorted(asset_numbers(cols)))
    IN  IF assets # <<>> THEN assets ELSE FallbackAssets(cols, row)

----------------------------------------------------------------------------
(* Inputs: column names and cell values *)

\* number of slot numbers 1..MaxSlot a header may use (beside slot 12)
MaxSlot == 2

SP == <<" ">>

w_No == <<"N","o",".">>

w_Asset == <<"A","s","s","e","t">>

w_Jenis == <<"J","e","n","i","s">>

w_UploadFoto == <<"U","p","l","o","a","d"," ","F","o","t","o">>

\* "No. Asset <n>"
NoAssetCol(n) == w_No \o SP \o w_Asset \o SP \o Digits(n)

\* "Jenis Asset <n>"
JenisAssetCol(n) == w_Jenis \o SP \o w_Asset \o SP \o Digits(n)

\* "Upload Foto No. asset <n>"
UploadFotoCol(n) == w_UploadFoto \o SP \o w_No \o SP \o s_asset \o SP \o Digits(n)

\* the unnumbered form: "No. Asset", "Jenis Asset", "Upload Foto Asset"
UnnumberedCols == << w_No \o SP \o w_Asset, w_Jenis \o SP \o w_Asset, w_UploadFoto \o SP \o w_Asset >>

\* slot numbers used in headers: 1..MaxSlot, and 12, whose name extends "Asset 1"
SlotNumbers == (1..MaxSlot) \cup {12}

\* a header declares one slot, or two distinct slots in either order
SlotLists ==
    {<<a>> : a \in SlotNumbers}
    \cup {sl \in SlotNumbers \X SlotNumbers : sl[1] # sl[2]}

\* the header declaring the slots of sl, three columns per slot
RECURSIVE HeaderOf(_)
HeaderOf(sl) ==
    IF sl = <<>> THEN <<>>
    ELSE <<NoAssetCol(Head(sl)), JenisAssetCol(Head(sl)), UploadFotoCol(Head(sl))>>
         \o HeaderOf(Tail(sl))

AssetHeaders == {HeaderOf(sl) : sl \in SlotLists} \cup {UnnumberedCols}

v_blank == <<" ">>

v_id == <<" ","A","-","1"," ">>

v_id2 == <<"B","2">>

v_url == <<"h","t","t","p",":","/","/","x","?","i","d","=","F">>

v_spaced_url == <<" ">> \o v_url

v_jenis == <<"L","a","p","t","o","p">>

v_url_d == <<"h","t","t","p",":","/","/","x","/","d","/","G","/","v">>

v_url_noid == <<"h","t","t","p",":","/","/","x">>

\* what an asset-id cell may hold: nothing, blanks, an id, a link, a link after a blank
IdCells == {NaN, v_blank, v_id, v_url, v_spaced_url}

JenisCells == {NaN, v_jenis}

FotoCells == {NaN, v_url}

\* the cells of the i-th column of an asset header (id, jenis, foto, id, ...)
AssetCells(i) ==
    IF i % 3 = 1 THEN IdCells ELSE IF i % 3 = 2 THEN JenisCells ELSE FotoCells

AssetRows(cols) == {r \in [DOMAIN cols -> IdCells \cup JenisCells \cup FotoCells] :
                        \A i \in DOMAIN cols : r[i] \in AssetCells(i)}

----------------------------------------------------------------------------
(* download_image_from_gdrive *)

\* index of the first occurrence of sep in s, 0 when there is none
Find(s, sep) ==
    LET at == {i \in 1..(Len(s) - Len(sep) + 1) : SubSeq(s, i, i + Len(sep) - 1) = sep}
    IN  IF at = {} THEN 0 ELSE Least(at)

\* s.split(sep)[0]
SplitFirst(s, sep) == IF Find(s, sep) = 0 THEN s ELSE SubSeq(s, 1, Find(s, sep) - 1)

\* s.split(sep)[1], for s that holds sep
SplitSecond(s, sep) ==
    SplitFirst(SubSeq(s, Find(s, sep) + Len(sep), Len(s)), sep)

s_id_eq == <<"i","d","=">>

s_slash_d == <<"/","d","/">>

\* the file id taken from the reference; <<>> when none is found
FileIdOf(url) ==
    IF Contains(url, s_id_eq) THEN SplitFirst(SplitSecond(url, s_id_eq), <<"&">>)
    ELSE IF Contains(url, s_slash_d) THEN SplitFirst(SplitSecond(url, s_slash_d), <<"/">>)
    ELSE <<>>

\* temp_path: <temp_image_folder>/<file_id>.png
TempPath(file_id) == file_id \o <<".","p","n","g">>

\* len(download_urls): the candidate URLs are tried by index 1..NumUrls
NumUrls == 4

\* What one session.get and the decoding of its body can give:
\*   image      status 200, more than 1000 bytes, not HTML, PIL opens and saves it
\*   html       status 200, more than 1000 bytes, content-type text/html
\*   bad_image  status 200, more than 1000 bytes, PIL cannot open or save it
\*   short      status 200, at most 1000 bytes
\*   http403, http404, http_other   the status codes
\*   timeout, connection_error, request_error   the requests exceptions
AttemptOutcomes ==
    {"image", "html", "bad_image", "short", "http403", "http404", "http_other",
     "timeout", "connection_error", "request_error"}

\* IsCached when the look-up is missing: every call goes to the network
IsCached_NoLookup(files, file_id) == FALSE

\* os.path.exists(temp_path), asked before any request is made
IsCached(files, file_id) == file_id \in files

NoDl == [pc |-> "idle"]

\* the call download_image_from_gdrive(url) made by caller, before its first line
DlCall(url, caller) ==
    [pc |-> "enter", url |-> url, caller |-> caller, file_id |-> <<>>,
     attempt |-> 0, tried |-> <<>>, last |-> "none", result |-> None]

\* the call returns result, having made network attempts or not
DlReturns(d, result) == [d EXCEPT !.pc = "ret", !.result = result]

\* the returned call d, as kept in calls
CallLog(d) == [url |-> d.url, result |-> d.result]

\* lines 41-58: the file id, and the cache look-up
DlEnter ==
    /\ dl.pc = "enter"
    /\ LET fid == FileIdOf(dl.url)
           d == [dl EXCEPT !.file_id = fid]
       IN  IF fid = <<>>
           THEN dl' = DlReturns(d, None)
           ELSE IF IsCached(cache, fid)
           THEN dl' = DlReturns(d, TempPath(fid))
           ELSE dl' = [d EXCEPT !.pc = "try", !.attempt = 1]
    /\ UNCHANGED <<pc, columns, df, person_key, extracted, grouped, rowi, gidx, success,
                   outputs, insert_images, enable_pdf, fill, pdf, cache, calls, printed>>

\* DlAttempt when a 403 ends the loop as a 404 does
DlAttempt_StopsOn403 ==
    /\ dl.pc = "try"
    /\ \E out \in AttemptOutcomes :
         LET d == [dl EXCEPT !.tried = Append(@, dl.attempt), !.last = out]
         IN  IF out = "image"
             THEN /\ cache' = cache \cup {dl.file_id}
                  /\ dl' = DlReturns(d, TempPath(dl.file_id))
             ELSE IF out \in {"http404", "http403"} \/ dl.attempt = NumUrls
             THEN /\ cache' = cache
                  /\ dl' = DlReturns(d, None)
             ELSE /\ cache' = cache
                  /\ dl' = [d EXCEPT !.attempt = @ + 1]
    /\ UNCHANGED <<pc, columns, df, person_key, extracted, grouped, rowi, gidx, success,
                   outputs, insert_images, enable_pdf, fill, pdf, calls, printed>>

\* lines 83-143: one turn of the loop over download_urls
DlAttempt ==
    /\ dl.pc = "try"
    /\ \E out \in AttemptOutcomes :
         LET d == [dl EXCEPT !.tried = Append(@, dl.attempt), !.last = out]
         IN  IF out = "image"
             THEN /\ cache' = cache \cup {dl.file_id}
                  /\ dl' = DlReturns(d, TempPath(dl.file_id))
             ELSE IF out = "http404" \/ dl.attempt = NumUrls
             THEN /\ cache' = cache
                  /\ dl' = DlReturns(d, None)
             ELSE /\ cache' = cache
                  /\ dl' = [d EXCEPT !.attempt = @ + 1]
    /\ UNCHANGED <<pc, columns, df, person_key, extracted, grouped, rowi, gidx, success,
                   outputs, insert_images, enable_pdf, fill, pdf, calls, printed>>

----------------------------------------------------------------------------
(* fill_excel_template *)

\* index of the last occurrence of sep in s, 0 when there is none
FindLast(s, sep) ==
    LET at == {i \in 1..(Len(s) - Len(sep) + 1) : SubSeq(s, i, i + Len(sep) - 1) = sep}
    IN  IF at = {} THEN 0 ELSE CHOOSE i \in at : \A j \in at : i >= j

\* s.split(sep)[-1]
SplitLast(s, sep) == SubSeq(s, FindLast(s, sep) + Len(sep), Len(s))

\* str(datetime.now().year): the year of the run
CurrentYear == <<"Y","Y","Y","Y">>

\* The year written for a truthy timestamp.  A NaN timestamp is a float:
\* `'/' in timestamp` raises, and the except branch takes the current year.
YearOf(timestamp) ==
    IF timestamp = NaN THEN CurrentYear
    ELSE IF Contains(timestamp, <<"/">>) THEN SplitFirst(SplitLast(timestamp, <<"/">>), <<" ">>)
    ELSE IF Contains(timestamp, <<"-">>) THEN SplitFirst(timestamp, <<"-">>)
    ELSE CurrentYear

s_tahun == <<"T","a","h","u","n"," ">>

\* ws[cell] = value
Put(ws, cell, value) ==
    [c \in (DOMAIN ws) \cup {cell} |-> IF c = cell THEN value ELSE ws[c]]

\* the sheet before any cell is written
EmptySheet == [c \in {} |-> <<>>]

\* the cells written before the loop: E1 (for a truthy timestamp), H1, H2, E27, K28
HeaderWrites(info) ==
    LET w0 == IF info.Timestamp # <<>>
              THEN Put(EmptySheet, <<"E", 1>>, s_tahun \o YearOf(info.Timestamp))
              ELSE EmptySheet
        w1 == Put(w0, <<"H", 1>>, info.Area)
        w2 == Put(w1, <<"H", 2>>, info.Divisi)
        w3 == Put(w2, <<"E", 27>>, info.DibuatOleh)
    IN  Put(w3, <<"K", 28>>, info.PIC)

\* ItemRow with the loop counted from 1: the first item lands on row 10
ItemRow_FromOne(idx) == 9 + idx + 1

\* row_num = 9 + idx
ItemRow(idx) == 9 + idx

\* the five cells written for the item at 0-based position idx
ItemWrites(ws, info, asset, idx) ==
    LET r  == ItemRow(idx)
        w1 == Put(ws, <<"A", r>>, idx + 1)
        w2 == Put(w1, <<"B", r>>, asset.jenis)
        w3 == Put(w2, <<"C", r>>, asset.no)
        w4 == Put(w3, <<"F", r>>, info.Nama)
    IN  Put(w4, <<"G", r>>, info.Jabatan)

ItemCells(idx) == {<<c, ItemRow(idx)>> : c \in {"A", "B", "C", "F", "G"}}

\* self.insert_images and asset['foto'] and asset['foto'].startswith('http')
WantsImage(flag, asset) == flag /\ asset.foto # <<>> /\ StartsWith(asset.foto, s_http)

NoFill == [pc |-> "idle"]

\* the call fill_excel_template(template, output_path, info, assets), before load_workbook
FillCall(info, assets) ==
    [pc |-> "load", info |-> info, assets |-> assets, idx |-> 0, ws |-> EmptySheet,
     written |-> <<>>, item_cells |-> {}, images |-> {}, unresolved |-> {},
     error |-> "none", result |-> FALSE]

\* an exception from the workbook: caught at line 335, the call returns False
FillFails(f, what) == [f EXCEPT !.pc = "ret", !.error = what, !.result = FALSE]

\* lines 269-297: load_workbook and the header cells
FillLoad ==
    /\ fill.pc = "load"
    /\ \E ok \in BOOLEAN :
         fill' = IF ok THEN [fill EXCEPT !.pc = "items", !.ws = HeaderWrites(fill.info)]
                 ELSE FillFails(fill, "load")
    /\ UNCHANGED <<pc, columns, df, person_key, extracted, grouped, rowi, gidx, success,
                   outputs, insert_images, enable_pdf, pdf, dl, cache, calls, printed>>

\* lines 300-311: one turn of the loop over assets, up to the download call
FillItem ==
    /\ fill.pc = "items"
    /\ fill.idx < Len(fill.assets)
    /\ \E ok \in BOOLEAN :
         LET asset == fill.assets[fill.idx + 1]
             f == [fill EXCEPT !.ws = ItemWrites(@, fill.info, asset, fill.idx),
                               !.written = Append(@, ItemRow(fill.idx)),
                               !.item_cells = @ \cup ItemCells(fill.idx)]
         IN  IF ~ok
             THEN fill' = FillFails(fill, "write") /\ dl' = dl
             ELSE IF WantsImage(insert_images, asset)
             THEN fill' = [f EXCEPT !.pc = "image"] /\ dl' = DlCall(asset.foto, "fill")
             ELSE fill' = [f EXCEPT !.idx = @ + 1] /\ dl' = dl
    /\ UNCHANGED <<pc, columns, df, person_key, extracted, grouped, rowi, gidx, success,
                   outputs, insert_images, enable_pdf, pdf, cache, calls, printed>>

\* AfterImage when a failed image aborts the document
AfterImage_Aborts(f, path, embed_ok) ==
    IF path # None /\ embed_ok
    THEN [f EXCEPT !.pc = "items", !.idx = @ + 1,
                   !.images = @ \cup {ItemRow(f.idx)},
                   !.item_cells = @ \cup {<<"D", ItemRow(f.idx)>>}]
    ELSE [f EXCEPT !.pc = "ret", !.result = FALSE, !.unresolved = @ \cup {f.idx}]

\* lines 313-331: the image is anchored at D<row> when the download gave a
\* path and XLImage / add_image did not raise; else a warning, and the loop goes on
AfterImage(f, path, embed_ok) ==
    IF path # None /\ embed_ok
    THEN [f EXCEPT !.pc = "items", !.idx = @ + 1,
                   !.images = @ \cup {ItemRow(f.idx)},
                   !.item_cells = @ \cup {<<"D", ItemRow(f.idx)>>}]
    ELSE [f EXCEPT !.pc = "items", !.idx = @ + 1, !.unresolved = @ \cup {f.idx}]

FillImage ==
    /\ fill.pc = "image"
    /\ dl.pc = "ret"
    /\ dl.caller = "fill"
    /\ \E embed_ok \in BOOLEAN : fill' = AfterImage(fill, dl.result, embed_ok)
    /\ dl' = NoDl
    /\ calls' = calls \cup {CallLog(dl)}
    /\ printed' = printed
    /\ UNCHANGED <<pc, columns, df, person_key, extracted, grouped, rowi, gidx, success,
                   outputs, insert_images, enable_pdf, pdf, cache>>

\* lines 333-337: wb.save and the result
FillSave ==
    /\ fill.pc = "items"
    /\ fill.idx = Len(fill.assets)
    /\ \E ok \in BOOLEAN :
         fill' = IF ok THEN [fill EXCEPT !.pc = "ret", !.result = TRUE]
                 ELSE FillFails(fill, "save")
    /\ UNCHANGED <<pc, columns, df, person_key, extracted, grouped, rowi, gidx, success,
                   outputs, insert_images, enable_pdf, pdf, dl, cache, calls, printed>>

----------------------------------------------------------------------------
(* generate_pdf *)

s_NA == <<"N","/","A">>

\* the flowable RLImage(image_path, ...) as a table cell
ImageCell(path) == <<"<RLImage>">> \o path

NoPdf == [pc |-> "idle"]

\* the call generate_pdf(pdf_path, info, assets), before its first line
PdfCall(info, assets) ==
    [pc |-> "start", info |-> info, assets |-> assets, idx |-> 0, year |-> <<>>,
     table |-> <<>>, unresolved |-> {}, error |-> "none", result |-> FALSE]

\* one row of table_data
PdfRow(p, foto_cell) ==
    [no |-> Digits(p.idx + 1), foto |-> foto_cell, jenis |-> p.assets[p.idx + 1].jenis,
     asset |-> p.assets[p.idx + 1].no, nama |-> p.info.Nama, jabatan |-> p.info.Jabatan]

\* lines 342-405: the document, the title with the year, the header table
PdfStart ==
    /\ pdf.pc = "start"
    /\ pdf' = [pdf EXCEPT !.pc = "items",
                          !.year = IF pdf.info.Timestamp # <<>>
                                   THEN YearOf(pdf.info.Timestamp) ELSE CurrentYear]
    /\ UNCHANGED <<pc, columns, df, person_key, extracted, grouped, rowi, gidx, success,
                   outputs, insert_images, enable_pdf, fill, dl, cache, calls, printed>>

\* lines 408-433: one turn of the loop over assets, up to the download call
PdfItem ==
    /\ pdf.pc = "items"
    /\ pdf.idx < Len(pdf.assets)
    /\ IF WantsImage(insert_images, pdf.assets[pdf.idx + 1])
       THEN /\ pdf' = [pdf EXCEPT !.pc = "image"]
            /\ dl' = DlCall(pdf.assets[pdf.idx + 1].foto, "pdf")
       ELSE /\ pdf' = [pdf EXCEPT !.table = Append(@, PdfRow(pdf, s_NA)), !.idx = @ + 1]
            /\ dl' = dl
    /\ UNCHANGED <<pc, columns, df, person_key, extracted, grouped, rowi, gidx, success,
                   outputs, insert_images, enable_pdf, fill, cache, calls, printed>>

\* PdfAfterImage when a failed image leaves the cell empty
PdfAfterImage_Empty(p, path, embed_ok) ==
    IF path # None /\ embed_ok
    THEN [p EXCEPT !.pc = "items", !.idx = @ + 1,
                   !.table = Append(@, PdfRow(p, ImageCell(path)))]
    ELSE [p EXCEPT !.pc = "items", !.idx = @ + 1,
                   !.table = Append(@, PdfRow(p, <<>>)),
                   !.unresolved = @ \cup {p.idx}]

\* lines 414-421: the image flowable when the download gave a path and RLImage
\* did not raise, else 'N/A'
PdfAfterImage(p, path, embed_ok) ==
    IF path # None /\ embed_ok
    THEN [p EXCEPT !.pc = "items", !.idx = @ + 1,
                   !.table = Append(@, PdfRow(p, ImageCell(path)))]
    ELSE [p EXCEPT !.pc = "items", !.idx = @ + 1,
                   !.table = Append(@, PdfRow(p, s_NA)),
                   !.unresolved = @ \cup {p.idx}]

PdfImage ==
    /\ pdf.pc = "image"
    /\ dl.pc = "ret"
    /\ dl.caller = "pdf"
    /\ \E embed_ok \in BOOLEAN : pdf' = PdfAfterImage(pdf, dl.result, embed_ok)
    /\ dl' = NoDl
    /\ calls' = calls \cup {CallLog(dl)}
    /\ printed' = printed
    /\ UNCHANGED <<pc, columns, df, person_key, extracted, grouped, rowi, gidx, success,
                   outputs, insert_images, enable_pdf, fill, cache>>

\* lines 435-477: the table, doc.build and the result
PdfBuild ==
    /\ pdf.pc = "items"
    /\ pdf.idx = Len(pdf.assets)
    /\ \E ok \in BOOLEAN :
         pdf' = IF ok THEN [pdf EXCEPT !.pc = "ret", !.result = TRUE]
                ELSE [pdf EXCEPT !.pc = "ret", !.error = "build", !.result = FALSE]
    /\ UNCHANGED <<pc, columns, df, person_key, extracted, grouped, rowi, gidx, success,
                   outputs, insert_images, enable_pdf, fill, dl, cache, calls, printed>>

----------------------------------------------------------------------------
(* read_csv_responses, and generate_excel_consolidated up to the grouping *)

s_duplicate == <<"_","d","u","p","l","i","c","a","t","e">>

\* lines 155-161: the i-th repeat (i >= 1) of a column name gets the suffix
\* _duplicate<i>, then every name is stripped
CleanColumns(cols) ==
    [j \in DOMAIN cols |->
        LET i == Cardinality({k \in 1..(j - 1) : cols[k] = cols[j]})
        IN  Strip(IF i = 0 THEN cols[j] ELSE cols[j] \o s_duplicate \o Digits(i))]

c_Timestamp == <<"T","i","m","e","s","t","a","m","p">>

c_Nama == <<"N","a","m","a">>

c_Divisi == <<"D","i","v","i","s","i">>

c_Area == <<"A","r","e","a">>

c_PIC == <<"P","I","C">>

c_DibuatOleh == <<"D","i","b","u","a","t"," ","O","l","e","h">>

c_Jabatan == <<"J","a","b","a","t","a","n">>

s_dibuat == <<"d","i","b","u","a","t">>

s_oleh == <<"o","l","e","h">>

\* lines 487-501: the name a column is renamed to
Rename(col) ==
    LET cl == Lower(col)
    IN  IF Contains(cl, Lower(c_Timestamp)) THEN c_Timestamp
        ELSE IF Contains(cl, Lower(c_Nama)) /\ ~Contains(cl, s_jenis) THEN c_Nama
        ELSE IF Contains(cl, Lower(c_Divisi)) THEN c_Divisi
        ELSE IF Contains(cl, Lower(c_Area)) THEN c_Area
        ELSE IF Strip(cl) = Lower(c_PIC) THEN c_PIC
        ELSE IF Contains(cl, s_dibuat) /\ Contains(cl, s_oleh) THEN c_DibuatOleh
        ELSE IF Contains(cl, Lower(c_Jabatan)) THEN c_Jabatan
        ELSE col

HasColumn(cols, name) == \E i \in DOMAIN cols : cols[i] = name

\* row.get(name, default)
RowGet(cols, row, name, default) ==
    IF HasColumn(cols, name) THEN row[CHOOSE i \in DOMAIN cols : cols[i] = name]
    ELSE default

s_Unknown == <<"U","n","k","n","o","w","n">>

\* series.fillna('Unknown'), one cell
Fillna(v) == IF v = NaN THEN s_Unknown ELSE v

\* PersonKey with the fields joined end to end, no separator
PersonKey_NoSeparator(nama, divisi, area) == Fillna(nama) \o Fillna(divisi) \o Fillna(area)

\* one row's person_key: Nama + '_' + Divisi + '_' + Area, each after fillna('Unknown')
PersonKey(nama, divisi, area) ==
    Fillna(nama) \o <<"_">> \o Fillna(divisi) \o <<"_">> \o Fillna(area)

\* lines 518-526: the 'info' dict built from the first row of a key
InfoOf(cols, row) ==
    [Timestamp  |-> RowGet(cols, row, c_Timestamp, <<>>),
     Nama       |-> RowGet(cols, row, c_Nama, s_Unknown),
     Divisi     |-> RowGet(cols, row, c_Divisi, s_Unknown),
     Area       |-> RowGet(cols, row, c_Area, s_Unknown),
     PIC        |-> RowGet(cols, row, c_PIC, s_Unknown),
     DibuatOleh |-> RowGet(cols, row, c_DibuatOleh, <<>>),
     Jabatan    |-> RowGet(cols, row, c_Jabatan, <<>>)]

c_person_key == <<"p","e","r","s","o","n","_","k","e","y">>

\* the assets of row r: the row handed to extract_assets_from_row carries the
\* person_key column added at line 504
RowAssets(cols, rows, keys, r) ==
    extract_assets_from_row(cols \o <<c_person_key>>, rows[r] \o <<keys[r]>>)

HasKey(groups, key) == \E g \in DOMAIN groups : groups[g].key = key

\* Accumulate when a row of a known key replaces the assets of its group
Accumulate_Replace(groups, key, info, assets) ==
    IF HasKey(groups, key)
    THEN [g \in DOMAIN groups |->
            IF groups[g].key = key THEN [groups[g] EXCEPT !.assets = assets]
            ELSE groups[g]]
    ELSE Append(groups, [key |-> key, info |-> info, assets |-> assets])

\* Accumulate when a new key is put in front of the groups
Accumulate_NewFirst(groups, key, info, assets) ==
    IF HasKey(groups, key)
    THEN [g \in DOMAIN groups |->
            IF groups[g].key = key THEN [groups[g] EXCEPT !.assets = @ \o assets]
            ELSE groups[g]]
    ELSE <<[key |-> key, info |-> info, assets |-> assets]>> \o groups

\* Accumulate when every row of a key writes its info into the group
Accumulate_LastInfo(groups, key, info, assets) ==
    IF HasKey(groups, key)
    THEN [g \in DOMAIN groups |->
            IF groups[g].key = key
            THEN [groups[g] EXCEPT !.info = info, !.assets = @ \o assets]
            ELSE groups[g]]
    ELSE Append(groups, [key |-> key, info |-> info, assets |-> assets])

\* lines 516-532: a new key gets a group, after the groups there are, with
\* this row's info; the row's assets are appended to the group of its key
Accumulate(groups, key, info, assets) ==
    IF HasKey(groups, key)
    THEN [g \in DOMAIN groups |->
            IF groups[g].key = key THEN [groups[g] EXCEPT !.assets = @ \o assets]
            ELSE groups[g]]
    ELSE Append(groups, [key |-> key, info |-> info, assets |-> assets])

\* line 481, read_csv_responses: the file is read, or the read raises and None
\* is returned
ReadCsv ==
    /\ pc = "read"
    /\ \E ok \in BOOLEAN :
         IF ok THEN /\ columns' = CleanColumns(columns)
                    /\ df' = df
                    /\ printed' = Append(printed, "read_ok")
                    /\ pc' = "loaded"
         ELSE /\ columns' = <<>>
              /\ df' = <<>>
              /\ printed' = Append(printed, "read_error")
              /\ pc' = "read_failed"
    /\ UNCHANGED <<person_key, extracted, grouped, rowi, gidx, success, outputs,
                   insert_images, enable_pdf, fill, pdf, dl, cache, calls>>

\* NoData when the caller prints the read error a second time
NoData_RepeatsError ==
    /\ pc = "read_failed" \/ (pc = "loaded" /\ Len(df) = 0)
    /\ printed' = Append(printed, IF pc = "read_failed" THEN "read_error" ELSE "no_data")
    /\ pc' = "nodata"
    /\ UNCHANGED <<columns, df, person_key, extracted, grouped, rowi, gidx, success,
                   outputs, insert_images, enable_pdf, fill, pdf, dl, cache, calls>>

\* lines 482-484: no frame, or a frame without rows: "No data to process!"
NoData ==
    /\ pc = "read_failed" \/ (pc = "loaded" /\ Len(df) = 0)
    /\ printed' = Append(printed, "no_data")
    /\ pc' = "nodata"
    /\ UNCHANGED <<columns, df, person_key, extracted, grouped, rowi, gidx, success,
                   outputs, insert_images, enable_pdf, fill, pdf, dl, cache, calls>>

\* lines 487-501: the columns are renamed
Normalize ==
    /\ pc = "loaded"
    /\ Len(df) > 0
    /\ columns' = [i \in DOMAIN columns |-> Rename(columns[i])]
    /\ pc' = "key"
    /\ UNCHANGED <<df, person_key, extracted, grouped, rowi, gidx, success, outputs,
                   insert_images, enable_pdf, fill, pdf, dl, cache, calls, printed>>

\* lines 504-508: the person_key column.  df.get gives the string 'Unknown'
\* for a column that is not there, and 'Unknown'.fillna raises AttributeError,
\* which nothing catches.
ComputeKey ==
    /\ pc = "key"
    /\ IF HasColumn(columns, c_Nama) /\ HasColumn(columns, c_Divisi) /\ HasColumn(columns, c_Area)
       THEN /\ person_key' =
                 [r \in DOMAIN df |->
                     PersonKey(RowGet(columns, df[r], c_Nama, NaN),
                               RowGet(columns, df[r], c_Divisi, NaN),
                               RowGet(columns, df[r], c_Area, NaN))]
            /\ pc' = "rows"
       ELSE /\ person_key' = person_key
            /\ pc' = "raised"
    /\ UNCHANGED <<columns, df, extracted, grouped, rowi, gidx, success, outputs,
                   insert_images, enable_pdf, fill, pdf, dl, cache, calls, printed>>

\* lines 513-532: one turn of the loop over df.iterrows()
ProcessRow ==
    /\ pc = "rows"
    /\ rowi < Len(df)
    /\ LET r == rowi + 1
           assets == RowAssets(columns, df, person_key, r)
       IN  /\ extracted' = assets
           /\ grouped' = Accumulate(grouped, person_key[r], InfoOf(columns, df[r]), assets)
           /\ rowi' = r
           /\ pc' = IF r = Len(df) THEN "groups" ELSE "rows"
    /\ UNCHANGED <<columns, df, person_key, gidx, success, outputs,
                   insert_images, enable_pdf, fill, pdf, dl, cache, calls, printed>>

----------------------------------------------------------------------------
(* generate_excel_consolidated: the loop over the groups *)

s_assets_xlsx == <<"a","s","s","e","t","s",".","x","l","s","x">>

\* FileName with the enumerate started at 0
FileName_FromZero(idx, info, n) ==
    LET nama   == Replace(Str(info.Nama), " ", <<"_">>)
        area   == Replace(Replace(Replace(Replace(Str(info.Area), " ", <<"_">>),
                                          "(", <<>>), ")", <<>>), ".", <<>>)
        divisi == Replace(Str(info.Divisi), " ", <<"_">>)
    IN  Digits(idx - 1) \o <<"_">> \o area \o <<"_">> \o divisi \o <<"_">> \o nama
            \o <<"_">> \o Digits(n) \o s_assets_xlsx

\* f"{idx}_{area}_{divisi}_{nama}_{len(assets)}assets.xlsx"
FileName(idx, info, n) ==
    LET nama   == Replace(Str(info.Nama), " ", <<"_">>)
        area   == Replace(Replace(Replace(Replace(Str(info.Area), " ", <<"_">>),
                                          "(", <<>>), ")", <<>>), ".", <<>>)
        divisi == Replace(Str(info.Divisi), " ", <<"_">>)
    IN  Digits(idx) \o <<"_">> \o area \o <<"_">> \o divisi \o <<"_">> \o nama
            \o <<"_">> \o Digits(n) \o s_assets_xlsx

\* the last record of the log with its outcome filled in
Logged(log, filled, report) ==
    [log EXCEPT ![Len(log)] = [@ EXCEPT !.filled = filled, !.report = report]]

\* lines 536-549: the next group of grouped.items(), its file name, and the
\* call of fill_excel_template
GroupStart ==
    /\ pc = "groups"
    /\ gidx < Len(grouped)
    /\ LET idx == gidx + 1
           data == grouped[idx]
       IN  /\ gidx' = idx
           /\ outputs' = Append(outputs,
                  [idx |-> idx, key |-> data.key,
                   filename |-> FileName(idx, data.info, Len(data.assets)),
                   items |-> Len(data.assets), filled |-> "running", report |-> "none"])
           /\ fill' = FillCall(data.info, data.assets)
    /\ pc' = "filling"
    /\ UNCHANGED <<columns, df, person_key, extracted, grouped, rowi, success,
                   insert_images, enable_pdf, pdf, dl, cache, calls, printed>>

\* GroupFilled when a failed fill ends the loop: the summary comes next
GroupFilled_StopsOnFailure ==
    /\ pc = "filling"
    /\ fill.pc = "ret"
    /\ IF fill.result /\ enable_pdf
       THEN /\ pdf' = PdfCall(fill.info, fill.assets)
            /\ outputs' = Logged(outputs, "yes", "running")
            /\ success' = success
            /\ gidx' = gidx
            /\ pc' = "reporting"
       ELSE IF fill.result
       THEN /\ pdf' = pdf
            /\ outputs' = Logged(outputs, "yes", "off")
            /\ success' = success + 1
            /\ gidx' = gidx
            /\ pc' = "groups"
       ELSE /\ pdf' = pdf
            /\ outputs' = Logged(outputs, "no", "none")
            /\ success' = success
            /\ gidx' = Len(grouped)
            /\ pc' = "groups"
    /\ fill' = NoFill
    /\ UNCHANGED <<columns, df, person_key, extracted, grouped, rowi,
                   insert_images, enable_pdf, dl, cache, calls, printed>>

\* lines 549-567: fill_excel_template returned; the PDF is asked for when the
\* fill succeeded and PDF output is on
GroupFilled ==
    /\ pc = "filling"
    /\ fill.pc = "ret"
    /\ IF fill.result /\ enable_pdf
       THEN /\ pdf' = PdfCall(fill.info, fill.assets)
            /\ outputs' = Logged(outputs, "yes", "running")
            /\ success' = success
            /\ pc' = "reporting"
       ELSE IF fill.result
       THEN /\ pdf' = pdf
            /\ outputs' = Logged(outputs, "yes", "off")
            /\ success' = success + 1
            /\ pc' = "groups"
       ELSE /\ pdf' = pdf
            /\ outputs' = Logged(outputs, "no", "none")
            /\ success' = success
            /\ pc' = "groups"
    /\ fill' = NoFill
    /\ UNCHANGED <<columns, df, person_key, extracted, grouped, rowi, gidx,
                   insert_images, enable_pdf, dl, cache, calls, printed>>

\* lines 560-565: generate_pdf returned; the group counts as a success either way
GroupReported ==
    /\ pc = "reporting"
    /\ pdf.pc = "ret"
    /\ outputs' = Logged(outputs, "yes", IF pdf.result THEN "created" ELSE "failed")
    /\ success' = success + 1
    /\ pdf' = NoPdf
    /\ pc' = "groups"
    /\ UNCHANGED <<columns, df, person_key, extracted, grouped, rowi, gidx,
                   insert_images, enable_pdf, fill, dl, cache, calls, printed>>

\* lines 569-574: the loop is over, the summary is printed
Summary ==
    /\ pc = "groups"
    /\ gidx = Len(grouped)
    /\ pc' = "done"
    /\ UNCHANGED <<columns, df, person_key, extracted, grouped, rowi, gidx, success,
                   outputs, insert_images, enable_pdf, fill, pdf, dl, cache, calls, printed>>

NextProject ==
    \/ GroupStart \/ GroupFilled \/ GroupReported \/ Summary
    \/ FillLoad \/ FillItem \/ FillImage \/ FillSave
    \/ PdfStart \/ PdfItem \/ PdfImage \/ PdfBuild
    \/ DlEnter \/ DlAttempt

----------------------------------------------------------------------------
(* Specification SpecFill: the projection of one group of k items, from the *)
(* state generate_excel_consolidated is in when its grouping loop has ended *)

\* the most items a group holds
MaxItems == 20

\* the leading items that may carry a photo reference
MaxPhotoItems == 2

v_text == <<"s","e","e"," ","m","a","i","l">>

v_timestamp == <<"1","/","2","/","2","0","2","4"," ","1","0",":","0","0">>

v_nama == <<"B","u","d","i">>

v_divisi == <<"I","T">>

v_area == <<"H","Q"," ","(","1",")",".">>

\* the PersonInfo of the group
FillInfo ==
    [Timestamp |-> v_timestamp, Nama |-> v_nama, Divisi |-> v_divisi, Area |-> v_area,
     PIC |-> <<"P">>, DibuatOleh |-> <<"D">>, Jabatan |-> <<"J">>]

\* what the photo field of an item may hold: nothing, two links, a text that is no link
PhotoChoices == {<<>>, v_url, v_url_d, v_text}

\* the i-th item of a group: asset id "A<i>", a photo only among the leading items
FillAssets(k, photos) ==
    [i \in 1..k |-> [no    |-> <<"A">> \o Digits(i),
                     jenis |-> v_jenis,
                     foto  |-> IF i \in DOMAIN photos THEN photos[i] ELSE <<>>]]

InitFill ==
    /\ pc = "groups"
    /\ columns = <<>>
    /\ df = <<>>
    /\ person_key = <<>>
    /\ extracted = <<>>
    /\ \E k \in 0..MaxItems : \E photos \in [1..MaxPhotoItems -> PhotoChoices] :
         grouped = << [key    |-> PersonKey(v_nama, v_divisi, v_area),
                       info   |-> FillInfo,
                       assets |-> FillAssets(k, photos)] >>
    /\ rowi = 0
    /\ gidx = 0
    /\ success = 0
    /\ outputs = <<>>
    /\ insert_images \in BOOLEAN
    /\ enable_pdf \in BOOLEAN
    /\ fill = NoFill
    /\ pdf = NoPdf
    /\ dl = NoDl
    /\ cache = {}
    /\ calls = {}
    /\ printed = << >>

SpecFill == InitFill /\ [][NextProject]_vars

----------------------------------------------------------------------------
(* Specification SpecExtract: extract_assets_from_row on one row *)

InitExtract ==
    /\ pc = "extract"
    /\ columns \in AssetHeaders
    /\ \E r \in AssetRows(columns) : df = <<r>>
    /\ person_key = <<>>
    /\ extracted = <<>>
    /\ grouped = <<>>
    /\ rowi = 0
    /\ gidx = 0
    /\ success = 0
    /\ outputs = <<>>
    /\ insert_images = FALSE
    /\ enable_pdf = FALSE
    /\ fill = NoFill
    /\ pdf = NoPdf
    /\ dl = NoDl
    /\ cache = {}
    /\ calls = {}
    /\ printed = << >>

ExtractRow ==
    /\ pc = "extract"
    /\ extracted' = extract_assets_from_row(columns, df[1])
    /\ pc' = "extracted"
    /\ UNCHANGED <<columns, df, person_key, grouped, rowi, gidx, success, outputs,
                   insert_images, enable_pdf, fill, pdf, dl, cache, calls, printed>>

NextExtract == ExtractRow

SpecExtract == InitExtract /\ [][NextExtract]_vars

----------------------------------------------------------------------------
(* Claims about extract_assets_from_row (SpecExtract) *)

\* the value is a link, with or without blanks before it
IsLink(v) == notna(v) /\ StartsWith(Strip(Str(v)), s_http)

\* index of the column named name
ColumnIndex(cols, name) == CHOOSE i \in DOMAIN cols : cols[i] = name

\* the cell of the column named name; NaN when there is no such column
CellOf(cols, row, name) ==
    IF \E i \in DOMAIN cols : cols[i] = name THEN row[ColumnIndex(cols, name)] ELSE NaN

\* the text of a cell that may be missing or blank
TextOf(v) == IF notna(v) THEN Strip(Str(v)) ELSE <<>>

\* slot n's asset-id column "No. Asset n" holds a value that is not missing,
\* not blank and not a link
SlotHasId(cols, row, n) ==
    LET v == CellOf(cols, row, NoAssetCol(n))
    IN  notna(v) /\ Strip(Str(v)) # <<>> /\ ~IsLink(v)

\* the items the slots nums (ascending) should give: one per slot that has an id
RECURSIVE ItemsOfSlots(_, _, _)
ItemsOfSlots(cols, row, nums) ==
    IF nums = <<>> THEN <<>>
    ELSE (IF SlotHasId(cols, row, Head(nums))
          THEN << [no    |-> TextOf(CellOf(cols, row, NoAssetCol(Head(nums)))),
                   jenis |-> TextOf(CellOf(cols, row, JenisAssetCol(Head(nums)))),
                   foto  |-> TextOf(CellOf(cols, row, UploadFotoCol(Head(nums))))] >>
          ELSE <<>>)
         \o ItemsOfSlots(cols, row, Tail(nums))

\* C2: for a header with numbered slots, the extracted list holds an item for
\* slot N exactly when the slot's asset-id cell is not missing, not blank and
\* not a link, whatever the slot's category and photo cells hold: the list is
\* the ascending sequence of the slots that have an id.
C2_ItemIffIdPresent ==
    (pc = "extracted" /\ asset_numbers(columns) # {}) =>
        extracted = ItemsOfSlots(columns, df[1], Sorted(asset_numbers(columns)))

\* C3: no extracted item, and no item stored in a group, has an asset id that
\* starts with an http(s) scheme.
C3_AssetIdNeverLink ==
    /\ \A i \in DOMAIN extracted : ~StartsWith(extracted[i].no, s_http)
    /\ \A g \in DOMAIN grouped : \A i \in DOMAIN grouped[g].assets :
            ~StartsWith(grouped[g].assets[i].no, s_http)

\* the (slot, attribute) pairs column col is read for, nums being the slots found
PairsOf(nums, col) ==
    {<<n, ColumnAttr(col, n)>> : n \in {m \in nums : ColumnAttr(col, m) # "none"}}

\* C9: in a header with columns for numbered slots and their jenis and
\* upload/foto columns, every column is read for at most one (slot, attribute)
\* pair: never for two slots, never as two attributes.
C9_OnePairPerColumn ==
    LET nums == asset_numbers(columns)
    IN  \A i \in DOMAIN columns : Cardinality(PairsOf(nums, columns[i])) <= 1

\* C9 witness: a row of a header declaring slots 1 and 12 was extracted, and
\* the "No. Asset 12" column was read as the asset id of slot 12.
C9_Witness ==
    /\ pc = "extracted"
    /\ asset_numbers(columns) = {1, 12}
    /\ PairsOf({1, 12}, NoAssetCol(12)) = {<<12, "no">>}
    /\ Len(extracted) = 2

----------------------------------------------------------------------------
(* Specification SpecDownload: download_image_from_gdrive called repeatedly *)

\* photo references: ...?id=F, .../d/G/v, and one that holds no file id
PhotoRefs == {v_url, v_url_d, v_url_noid}

InitDownload ==
    /\ pc = "download"
    /\ columns = <<>>
    /\ df = <<>>
    /\ person_key = <<>>
    /\ extracted = <<>>
    /\ grouped = <<>>
    /\ rowi = 0
    /\ gidx = 0
    /\ success = 0
    /\ outputs = <<>>
    /\ insert_images = TRUE
    /\ enable_pdf = FALSE
    /\ fill = NoFill
    /\ pdf = NoPdf
    /\ dl = NoDl
    /\ cache = {}
    /\ calls = {}
    /\ printed = << >>

\* a caller resolves a photo reference
CallDownload ==
    /\ pc = "download"
    /\ dl.pc = "idle"
    /\ \E url \in PhotoRefs : dl' = DlCall(url, "caller")
    /\ UNCHANGED <<pc, columns, df, person_key, extracted, grouped, rowi, gidx, success,
                   outputs, insert_images, enable_pdf, fill, pdf, cache, calls, printed>>

\* the caller takes the result
DownloadReturned ==
    /\ pc = "download"
    /\ dl.pc = "ret"
    /\ dl.caller = "caller"
    /\ dl' = NoDl
    /\ calls' = calls \cup {CallLog(dl)}
    /\ printed' = printed
    /\ UNCHANGED <<pc, columns, df, person_key, extracted, grouped, rowi, gidx, success,
                   outputs, insert_images, enable_pdf, fill, pdf, cache>>

NextDownload == CallDownload \/ DlEnter \/ DlAttempt \/ DownloadReturned

SpecDownload == InitDownload /\ [][NextDownload]_vars

----------------------------------------------------------------------------
(* Claims about download_image_from_gdrive (SpecDownload) *)

\* C7 as stated: whatever an earlier call with the same photo reference gave,
\* a later call makes no network attempt.
C7_SecondCallNeverFetches ==
    (dl.pc # "idle" /\ \E c \in calls : c.url = dl.url) =>
        (dl.pc # "try" /\ dl.tried = <<>>)

\* C7 amended: after a call that returned an image path, a later call with the
\* same photo reference makes no network attempt and returns the same path.
C7_SecondCallCachedAfterSuccess ==
    \A c \in calls :
        (dl.pc # "idle" /\ c.url = dl.url /\ c.result # None) =>
            /\ dl.pc # "try"
            /\ dl.tried = <<>>
            /\ dl.pc = "ret" => dl.result = c.result

\* C7 witness: a reference was fetched over the network with success, and a
\* later call with the same reference returned the path without the network.
C7_Witness ==
    /\ dl.pc = "ret"
    /\ dl.tried = <<>>
    /\ dl.result # None
    /\ [url |-> dl.url, result |-> dl.result] \in calls

----------------------------------------------------------------------------
(* Claims about fill_excel_template and generate_pdf (SpecFill) *)

HeaderCells == {<<"E", 1>>, <<"H", 1>>, <<"H", 2>>, <<"E", 27>>, <<"K", 28>>}

\* C5: the item rows are written one after the other from row 9 on, none
\* skipped and none twice, no cell of an item is a header cell, and when the
\* fill of k items succeeds exactly k rows are written, the i-th item (0-based)
\* on row 9+i with sequence number i+1, beside untouched header cells.
C5_ItemRowsFromBase ==
    fill.pc # "idle" =>
        /\ fill.written = [i \in 1..Len(fill.written) |-> 8 + i]
        /\ fill.item_cells \cap HeaderCells = {}
        /\ (fill.pc = "ret" /\ fill.result) =>
              /\ Len(fill.written) = Len(fill.assets)
              /\ \A i \in 1..Len(fill.assets) :
                    /\ fill.ws[<<"A", 8 + i>>] = i
                    /\ fill.ws[<<"B", 8 + i>>] = fill.assets[i].jenis
                    /\ fill.ws[<<"C", 8 + i>>] = fill.assets[i].no
              /\ fill.ws[<<"H", 1>>] = fill.info.Area
              /\ fill.ws[<<"H", 2>>] = fill.info.Divisi
              /\ fill.ws[<<"E", 27>>] = fill.info.DibuatOleh
              /\ fill.ws[<<"K", 28>>] = fill.info.PIC

\* C5 witness: a fill succeeded for a group whose items reach rows 27 and 28,
\* the rows of the header cells E27 and K28.
C5_Witness ==
    /\ fill.pc = "ret"
    /\ fill.result
    /\ <<"C", 27>> \in DOMAIN fill.ws
    /\ <<"C", 28>> \in DOMAIN fill.ws

\* C8: a failed image (no path from the download, or an embedding that raises)
\* fails neither document.  A fill that met no workbook error returns True with
\* all its rows written and no image on the rows of the failed items; a report
\* whose build met no error returns True with one row per item, 'N/A' in the
\* photo cell of the failed items.
C8_ImageFailureIsLocal ==
    /\ (fill.pc = "ret" /\ fill.error = "none") =>
          /\ fill.result
          /\ Len(fill.written) = Len(fill.assets)
          /\ \A idx \in fill.unresolved : ItemRow(idx) \notin fill.images
    /\ (pdf.pc = "ret" /\ pdf.error = "none") =>
          /\ pdf.result
          /\ Len(pdf.table) = Len(pdf.assets)
          /\ \A i \in 1..Len(pdf.assets) : pdf.table[i].asset = pdf.assets[i].no
          /\ \A idx \in pdf.unresolved : pdf.table[idx + 1].foto = s_NA

\* C8 witness: a report returned True although the image of an item that is
\* not the last one failed, after the spreadsheet of the group was filled.
C8_Witness ==
    /\ pdf.pc = "ret"
    /\ pdf.result
    /\ outputs[Len(outputs)].filled = "yes"
    /\ \E idx \in pdf.unresolved : idx + 1 < Len(pdf.table)

----------------------------------------------------------------------------
(* Specifications Spec and SpecGroup: generate_excel_consolidated *)

\* the most rows the CSV file holds
MaxRows == 3

c_NamaLengkap == c_Nama \o <<" ","L","e","n","g","k","a","p">>

\* the header of the form export: one asset slot, no jenis, "dibuat oleh" or
\* jabatan column
FormHeader == <<c_Timestamp, c_NamaLengkap, c_Divisi, c_Area, c_PIC, NoAssetCol(1), UploadFotoCol(1)>>

\* the same export without its Divisi column
FormHeaderNoDivisi == <<c_Timestamp, c_NamaLengkap, c_Area, c_PIC, NoAssetCol(1), UploadFotoCol(1)>>

s_date == <<"/","2","/","2","0","2","4"," ","1","0",":","0","0">>

\* The r-th row of a file with header cols: the timestamp and the PIC are the
\* row's own, the other cells are the choice ch.
MakeRow(cols, r, ch) ==
    [i \in DOMAIN cols |->
        IF cols[i] = c_Timestamp THEN Digits(r) \o s_date
        ELSE IF cols[i] = c_NamaLengkap THEN ch.nama
        ELSE IF cols[i] = c_Divisi THEN ch.divisi
        ELSE IF cols[i] = c_Area THEN ch.area
        ELSE IF cols[i] = c_PIC THEN <<"P">> \o Digits(r)
        ELSE IF cols[i] = NoAssetCol(1) THEN ch.id
        ELSE ch.foto]

\* the files of n rows with header cols, every row drawn from choices
Frames(cols, n, choices) ==
    {[r \in 1..n |-> MakeRow(cols, r, pick[r])] : pick \in [1..n -> choices]}

\* the state before read_csv_responses: the file in columns and df
InitRun(headers, choices, flags) ==
    /\ pc = "read"
    /\ columns \in headers
    /\ \E n \in 0..MaxRows : df \in Frames(columns, n, choices)
    /\ person_key = <<>>
    /\ extracted = <<>>
    /\ grouped = <<>>
    /\ rowi = 0
    /\ gidx = 0
    /\ success = 0
    /\ outputs = <<>>
    /\ insert_images \in flags
    /\ enable_pdf \in flags
    /\ fill = NoFill
    /\ pdf = NoPdf
    /\ dl = NoDl
    /\ cache = {}
    /\ calls = {}
    /\ printed = << >>

n_a_b == <<"a","_","b">>

n_a == <<"a">>

d_c == <<"c">>

d_b_c == <<"b","_","c">>

a_d == <<"d">>

\* the persons of SpecGroup whose name or division holds the separator
Persons == {<<n_a_b, d_c>>, <<n_a, d_b_c>>}

\* two more persons: no separator, and a missing name
MorePersons == {<<n_a, d_c>>, <<NaN, d_c>>}

\* SpecGroup: a person of Persons with a first, a second or no asset id, or a
\* person of MorePersons with the first asset id
GroupChoices ==
    {[nama |-> p[1], divisi |-> p[2], area |-> a_d, id |-> i, foto |-> NaN] :
        p \in Persons, i \in {v_id, v_id2, NaN}}
    \cup {[nama |-> p[1], divisi |-> p[2], area |-> a_d, id |-> v_id, foto |-> NaN] :
        p \in MorePersons}

InitGroup == InitRun({FormHeader, FormHeaderNoDivisi}, GroupChoices, {FALSE})

NextGroup == ReadCsv \/ NoData \/ Normalize \/ ComputeKey \/ ProcessRow

\* the run up to the end of the grouping loop
SpecGroup == InitGroup /\ [][NextGroup]_vars

v_nama2 == <<"A","n","i"," ","S",".">>

\* the asset cells of Spec: no asset, an asset without a photo, one with a photo
RunAssets == {<<NaN, NaN>>, <<v_id, NaN>>, <<v_id, v_url>>}

\* Spec: one of two persons, and the asset cells
RunChoices ==
    {[nama |-> n, divisi |-> v_divisi, area |-> v_area, id |-> a[1], foto |-> a[2]] :
        n \in {v_nama, v_nama2}, a \in RunAssets}

Init == InitRun({FormHeader, FormHeaderNoDivisi}, RunChoices, BOOLEAN)

Next == NextGroup \/ NextProject

\* the whole run
Spec == Init /\ [][Next]_vars

\* main() before the generator is constructed: no file, no groups
InitMain ==
    /\ pc = "main"
    /\ columns = << >>
    /\ df = << >>
    /\ person_key = << >>
    /\ extracted = << >>
    /\ grouped = << >>
    /\ rowi = 0
    /\ gidx = 0
    /\ success = 0
    /\ outputs = << >>
    /\ insert_images = TRUE
    /\ enable_pdf = TRUE
    /\ fill = NoFill
    /\ pdf = NoPdf
    /\ dl = NoDl
    /\ cache = {}
    /\ calls = {}
    /\ printed = << >>

\* the rows of the files main() is run on: a row without an asset, or with an
\* asset and its photo (a photo is left alone when insert_images is off)
MainChoices == {c \in RunChoices : c.id = NaN \/ c.foto # NaN}

\* main(): the generator is constructed on the CSV file, the two answers set
\* insert_images and enable_pdf, and generate_excel_consolidated is called
Main ==
    /\ pc = "main"
    /\ \E h \in {FormHeader, FormHeaderNoDivisi}, n \in 0..MaxRows :
         \E f \in Frames(h, n, MainChoices) :
            /\ columns' = h
            /\ df' = f
    /\ insert_images' \in BOOLEAN
    /\ enable_pdf' \in BOOLEAN
    /\ pc' = "read"
    /\ UNCHANGED <<person_key, extracted, grouped, rowi, gidx, success, outputs,
                   fill, pdf, dl, cache, calls, printed>>

NextMain == Main \/ Next

\* the loop over the groups has a step to take: a group to start, a call to
\* go on with or to return from, or the summary to print
LoopActive == pc \in {"groups", "filling", "reporting"}

\* The program from main() on, with a loop over the groups that keeps
\* running: every call the loop makes returns (requests.get is given a
\* timeout), so the loop does not stay for ever at a step it can take.  This
\* is weak fairness of NextProject, its enabling condition written out as
\* LoopActive.
FairSpec ==
    /\ InitMain
    /\ [][NextMain]_vars
    /\ ([]<>(~LoopActive) \/ []<><<NextProject>>_vars)

----------------------------------------------------------------------------
(* Claims about the grouping loop, checked under SpecGroup *)

\* the rows the grouping loop has consumed
Consumed == IF pc \in {"rows", "groups"} THEN 1..rowi ELSE {}

\* the items of rows 1..n whose key is key, in row order
RECURSIVE ItemsOfKey(_, _)
ItemsOfKey(key, n) ==
    IF n = 0 THEN << >>
    ELSE ItemsOfKey(key, n - 1)
            \o (IF person_key[n] = key THEN RowAssets(columns, df, person_key, n)
                ELSE << >>)

\* C1: at every point of the grouping loop every row consumed so far has
\* exactly one group, and the item list of every group is the concatenation,
\* in row order, of the items extracted from the consumed rows of its key:
\* no item dropped, merged or moved, none taken from a row of another key.
C1_GroupIsConcatenationOfItsRows ==
    /\ \A r \in Consumed :
         Cardinality({g \in DOMAIN grouped : grouped[g].key = person_key[r]}) = 1
    /\ \A g \in DOMAIN grouped :
         /\ \E r \in Consumed : person_key[r] = grouped[g].key
         /\ grouped[g].assets = ItemsOfKey(grouped[g].key, rowi)

\* C1 witness: three rows, the first and the third of one key and the second
\* of another, each with an asset; the first group holds the items of rows 1
\* and 3, which repeat one asset id, the second group the item of row 2.
C1_Witness ==
    /\ pc = "groups"
    /\ Len(df) = 3
    /\ person_key[1] = person_key[3]
    /\ person_key[1] # person_key[2]
    /\ Len(grouped) = 2
    /\ Len(grouped[1].assets) = 2
    /\ grouped[1].assets[1].no = grouped[1].assets[2].no
    /\ Len(grouped[2].assets) = 1

\* the (name, division, area) of row r after default substitution
Triple(r) ==
    <<Fillna(RowGet(columns, df[r], c_Nama, NaN)),
      Fillna(RowGet(columns, df[r], c_Divisi, NaN)),
      Fillna(RowGet(columns, df[r], c_Area, NaN))>>

\* the group row r was placed in
GroupOf(r) == CHOOSE g \in DOMAIN grouped : grouped[g].key = person_key[r]

\* C4: when the grouping loop has ended, two rows are in the same group if
\* and only if their (name, division, area) triples are equal field by field
\* after default substitution.
C4_SameGroupIffSameTriple ==
    pc = "groups" =>
        \A r1, r2 \in DOMAIN df :
            (GroupOf(r1) = GroupOf(r2)) <=> (Triple(r1) = Triple(r2))

----------------------------------------------------------------------------
(* Claims about the loop over the groups, checked under Spec and FairSpec *)

\* the groups whose fill_excel_template call has returned with this result
Attempted(result) == {i \in DOMAIN outputs : outputs[i].filled = result}

\* the groups counted as a success: filled, and past line 565
Counted == {i \in Attempted("yes") : outputs[i].report # "running"}

\* the loop over the groups in any state: the groups 1..gidx have been
\* attempted, once each and in turn, no other; success counts the filled
\* groups that are past line 565; at the summary every group has been
\* attempted, every attempt has returned, and success is the number of groups
\* whose fill returned True.
LoopAccounts ==
    /\ Len(outputs) = gidx
    /\ gidx <= Len(grouped)
    /\ \A i \in DOMAIN outputs :
         /\ outputs[i].idx = i
         /\ outputs[i].key = grouped[i].key
         /\ outputs[i].filled = "running" => i = gidx /\ pc = "filling"
    /\ success = Cardinality(Counted)
    /\ pc = "done" =>
         /\ gidx = Len(grouped)
         /\ success = Cardinality(Attempted("yes"))
         /\ success + Cardinality(Attempted("no")) = Len(grouped)

\* C6: whatever fill_excel_template calls fail, every group is attempted
\* exactly once, a failed fill adds no success and the loop goes on to the
\* next group, the success count at the summary is the number of groups whose
\* fill returned True (successes + failures = groups), and once the grouping
\* loop has ended the summary is always reached.
C6_EveryGroupAttemptedThenSummary ==
    /\ []LoopAccounts
    /\ (pc = "groups") ~> (pc = "done")

\* C6 witness: the summary of a run of two groups, the fill of the first
\* failed and the fill of the second succeeded; one success is reported.
C6_Witness ==
    /\ pc = "done"
    /\ Len(grouped) = 2
    /\ outputs[1].filled = "no"
    /\ outputs[2].filled = "yes"
    /\ success = 1

\* the first row of the file with this key
FirstRow(key) == Least({r \in DOMAIN person_key : person_key[r] = key})

\* C10: the groups stand in the order in which their keys are first seen in
\* the rows; the g-th group is the g-th to be output, under a file name that
\* begins with g and '_'; so the indices used are 1..number of groups, each
\* once, also after a failed fill.
C10_FirstSeenOrderAndIndex ==
    pc \in {"groups", "filling", "reporting", "done"} =>
        /\ \A g, h \in DOMAIN grouped :
             g < h => FirstRow(grouped[g].key) < FirstRow(grouped[h].key)
        /\ \A i \in DOMAIN outputs :
             /\ outputs[i].key = grouped[i].key
             /\ StartsWith(outputs[i].filename, Digits(i) \o <<"_">>)
        /\ pc = "done" => DOMAIN outputs = DOMAIN grouped

\* C10 witness: three rows, the first and the third of one person and the
\* second of another; the fill of the first group failed, and the second
\* group, first seen in row 2, has been output under index 2.
C10_Witness ==
    /\ pc = "done"
    /\ Len(df) = 3
    /\ person_key[1] = person_key[3]
    /\ person_key[1] # person_key[2]
    /\ Len(outputs) = 2
    /\ outputs[1].filled = "no"
    /\ outputs[2].key = person_key[2]
    /\ outputs[2].filename[1] = "2"

----------------------------------------------------------------------------
(* Claims about the PersonInfo record, checked under SpecGroup *)

\* the fields of the 'info' dict
InfoFields == {"Timestamp", "Nama", "Divisi", "Area", "PIC", "DibuatOleh", "Jabatan"}

\* C11: every field of the info record of every group is a placeholder
\* ('Unknown' or the empty string) or a value of the row, never a null (NaN).
C11_InfoNeverNull ==
    \A g \in DOMAIN grouped : \A f \in InfoFields : grouped[g].info[f] # NaN

----------------------------------------------------------------------------
(* generate_excel_separate: one document per response *)

\* f"{idx}_{area}_{nama}_{len(assets)}assets.xlsx"
FileNameSeparate(idx, info, n) ==
    LET nama == Replace(Str(info.Nama), " ", <<"_">>)
        area == Replace(Replace(Replace(Replace(Str(info.Area), " ", <<"_">>),
                                        "(", <<>>), ")", <<>>), ".", <<>>)
    IN  Digits(idx) \o <<"_">> \o area \o <<"_">> \o nama
            \o <<"_">> \o Digits(n) \o s_assets_xlsx

\* line 578, read_csv_responses
SepReadCsv ==
    /\ pc = "sep_read"
    /\ \E ok \in BOOLEAN :
         IF ok THEN /\ columns' = CleanColumns(columns)
                    /\ df' = df
                    /\ printed' = Append(printed, "read_ok")
                    /\ pc' = "sep_loaded"
         ELSE /\ columns' = <<>>
              /\ df' = <<>>
              /\ printed' = Append(printed, "read_error")
              /\ pc' = "sep_read_failed"
    /\ UNCHANGED <<person_key, extracted, grouped, rowi, gidx, success, outputs,
                   insert_images, enable_pdf, fill, pdf, dl, cache, calls>>

\* lines 579-581: "No data to process!"
SepNoData ==
    /\ pc = "sep_read_failed" \/ (pc = "sep_loaded" /\ Len(df) = 0)
    /\ printed' = Append(printed, "no_data")
    /\ pc' = "sep_nodata"
    /\ UNCHANGED <<columns, df, person_key, extracted, grouped, rowi, gidx, success,
                   outputs, insert_images, enable_pdf, fill, pdf, dl, cache, calls>>

\* lines 584-598: the columns are renamed
SepNormalize ==
    /\ pc = "sep_loaded"
    /\ Len(df) > 0
    /\ columns' = [i \in DOMAIN columns |-> Rename(columns[i])]
    /\ pc' = "sep_rows"
    /\ UNCHANGED <<df, person_key, extracted, grouped, rowi, gidx, success, outputs,
                   insert_images, enable_pdf, fill, pdf, dl, cache, calls, printed>>

\* lines 603-623: the next response, its info, its assets, its file name, and
\* the call of fill_excel_template
SepStart ==
    /\ pc = "sep_rows"
    /\ rowi < Len(df)
    /\ LET idx    == rowi + 1
           info   == InfoOf(columns, df[idx])
           assets == extract_assets_from_row(columns, df[idx])
       IN  /\ rowi' = idx
           /\ extracted' = assets
           /\ outputs' = Append(outputs,
                  [idx |-> idx, key |-> None,
                   filename |-> FileNameSeparate(idx, info, Len(assets)),
                   items |-> Len(assets), filled |-> "running", report |-> "none"])
           /\ fill' = FillCall(info, assets)
    /\ pc' = "sep_filling"
    /\ UNCHANGED <<columns, df, person_key, grouped, gidx, success,
                   insert_images, enable_pdf, pdf, dl, cache, calls, printed>>

\* lines 623-641: fill_excel_template returned
SepFilled ==
    /\ pc = "sep_filling"
    /\ fill.pc = "ret"
    /\ IF fill.result /\ enable_pdf
       THEN /\ pdf' = PdfCall(fill.info, fill.assets)
            /\ outputs' = Logged(outputs, "yes", "running")
            /\ success' = success
            /\ pc' = "sep_reporting"
       ELSE IF fill.result
       THEN /\ pdf' = pdf
            /\ outputs' = Logged(outputs, "yes", "off")
            /\ success' = success + 1
            /\ pc' = "sep_rows"
       ELSE /\ pdf' = pdf
            /\ outputs' = Logged(outputs, "no", "none")
            /\ success' = success
            /\ pc' = "sep_rows"
    /\ fill' = NoFill
    /\ UNCHANGED <<columns, df, person_key, extracted, grouped, rowi, gidx,
                   insert_images, enable_pdf, dl, cache, calls, printed>>

\* SepReported when a response whose report failed is not counted
SepReported_FailureUncounted ==
    /\ pc = "sep_reporting"
    /\ pdf.pc = "ret"
    /\ outputs' = Logged(outputs, "yes", IF pdf.result THEN "created" ELSE "failed")
    /\ success' = IF pdf.result THEN success + 1 ELSE success
    /\ pdf' = NoPdf
    /\ pc' = "sep_rows"
    /\ UNCHANGED <<columns, df, person_key, extracted, grouped, rowi, gidx,
                   insert_images, enable_pdf, fill, dl, cache, calls, printed>>

\* lines 634-639: generate_pdf returned
SepReported ==
    /\ pc = "sep_reporting"
    /\ pdf.pc = "ret"
    /\ outputs' = Logged(outputs, "yes", IF pdf.result THEN "created" ELSE "failed")
    /\ success' = success + 1
    /\ pdf' = NoPdf
    /\ pc' = "sep_rows"
    /\ UNCHANGED <<columns, df, person_key, extracted, grouped, rowi, gidx,
                   insert_images, enable_pdf, fill, dl, cache, calls, printed>>

\* lines 643-648: the loop is over, the summary is printed
SepSummary ==
    /\ pc = "sep_rows"
    /\ rowi = Len(df)
    /\ pc' = "sep_done"
    /\ UNCHANGED <<columns, df, person_key, extracted, grouped, rowi, gidx, success,
                   outputs, insert_images, enable_pdf, fill, pdf, dl, cache, calls,
                   printed>>

NextSeparate ==
    \/ SepReadCsv \/ SepNoData \/ SepNormalize
    \/ SepStart \/ SepFilled \/ SepReported \/ SepSummary

\* the most rows of a run in either mode that inserts images
MaxImageRows == 1

\* the state after construction and the answers of main(): the mode is the
\* function that is about to run
InitModes ==
    /\ pc \in {"read", "sep_read"}
    /\ columns = FormHeader
    /\ \E n \in 0..MaxRows : df \in Frames(columns, n, MainChoices)
    /\ person_key = << >>
    /\ extracted = << >>
    /\ grouped = << >>
    /\ rowi = 0
    /\ gidx = 0
    /\ success = 0
    /\ outputs = << >>
    /\ insert_images \in BOOLEAN
    /\ insert_images => Len(df) <= MaxImageRows
    /\ enable_pdf \in BOOLEAN
    /\ fill = NoFill
    /\ pdf = NoPdf
    /\ dl = NoDl
    /\ cache = {}
    /\ calls = {}
    /\ printed = << >>

NextModes == Next \/ NextSeparate

\* a run in either mode
SpecModes == InitModes /\ [][NextModes]_vars

----------------------------------------------------------------------------
(* Claims about the two modes, checked under SpecModes *)

\* the read of the input file has failed
ReadFailed == \E i \in DOMAIN printed : printed[i] = "read_error"

\* nothing has been grouped, projected or written
NothingDone ==
    /\ grouped = << >>
    /\ outputs = << >>
    /\ rowi = 0
    /\ gidx = 0
    /\ success = 0
    /\ fill = NoFill
    /\ pdf = NoPdf
    /\ dl = NoDl
    /\ cache = {}

\* C12: once the read of the input file has failed, in either mode, nothing
\* is grouped, projected or written, and one line has been printed about it.
C12_ReadFailureStopsReportedOnce ==
    ReadFailed => NothingDone /\ Len(printed) = 1

\* C12 as the code has it: once the read of the input file has failed, in
\* either mode, the run is at its early return and nothing is grouped,
\* projected or written; the read error is printed once, by
\* read_csv_responses, and the only other line is the caller's "No data to
\* process!", printed when it returns.
C12_ReadFailureStops ==
    ReadFailed =>
        /\ NothingDone
        /\ pc \in {"read_failed", "nodata", "sep_read_failed", "sep_nodata"}
        /\ printed = IF pc \in {"nodata", "sep_nodata"}
                     THEN <<"read_error", "no_data">>
                     ELSE <<"read_error">>

\* C12 witness: generate_excel_consolidated has returned after a failed read
C12_Witness == ReadFailed /\ pc = "nodata"

----------------------------------------------------------------------------
(* Claims about the loop over download_urls, checked under SpecDownload *)

\* the candidates 1..k, in list order
FirstCandidates(k) == [i \in 1..k |-> i]

\* the call has made a network attempt
Attempting == dl.pc \in {"try", "ret"} /\ (dl.pc = "try" \/ dl.tried # << >>)

\* C13: the candidates are tried in list order; the call returns a path at
\* the first candidate that gives an image, and returns None only when every
\* candidate has been tried and has failed; a failure of any kind at a
\* candidate that is not the last leads to the next candidate.
C13_EveryCandidateTried ==
    Attempting =>
        /\ dl.tried = FirstCandidates(Len(dl.tried))
        /\ dl.pc = "try" => dl.attempt = Len(dl.tried) + 1 /\ dl.attempt <= NumUrls
        /\ dl.pc = "ret" =>
             /\ dl.result # None <=> dl.last = "image"
             /\ dl.result = None => Len(dl.tried) = NumUrls
        /\ (dl.tried # << >> /\ dl.last # "image" /\ Len(dl.tried) < NumUrls)
               => dl.pc = "try"

\* C13 as the code has it: the candidates are tried in list order; the call
\* returns a path at the first candidate that gives an image; a timeout, a
\* connection or request error, a 403, another status, an HTML body, a short
\* body or undecodable image data at a candidate that is not the last leads to
\* the next candidate; a 404 ends the loop at once; None is returned after a
\* 404, or when the last candidate has failed.
C13_CandidatesTriedUntil404 ==
    Attempting =>
        /\ dl.tried = FirstCandidates(Len(dl.tried))
        /\ dl.pc = "try" =>
             /\ dl.attempt = Len(dl.tried) + 1
             /\ dl.attempt <= NumUrls
             /\ dl.tried # << >> => dl.last \notin {"image", "http404"}
        /\ dl.pc = "ret" =>
             /\ dl.result # None <=> dl.last = "image"
             /\ dl.result = None => Len(dl.tried) = NumUrls \/ dl.last = "http404"
        /\ (dl.tried # << >> /\ dl.last \notin {"image", "http404"}
               /\ Len(dl.tried) < NumUrls)
               => dl.pc = "try"

\* C13 witness: the first candidate failed, the second gave a 404, and the
\* call has returned None with two candidates left untried.
C13_Witness ==
    /\ dl.pc = "ret"
    /\ dl.result = None
    /\ dl.tried = <<1, 2>>
    /\ dl.last = "http404"

----------------------------------------------------------------------------
(* Specification SpecFallback: extract_assets_from_row on one row of a      *)
(* header with unnumbered, repeated or mixed asset columns                   *)

\* the headers as they stand in the file, before read_csv_responses renames
\* the repeats: unnumbered; unnumbered with the id column twice; slot 1 with
\* its id column twice; slot 1; an unnumbered id column beside the jenis and
\* foto columns of slot 1
RawHeaders ==
    { UnnumberedCols,
      <<UnnumberedCols[1]>> \o UnnumberedCols,
      <<NoAssetCol(1)>> \o HeaderOf(<<1>>),
      HeaderOf(<<1>>),
      <<UnnumberedCols[1], JenisAssetCol(1), UploadFotoCol(1)>> }

FallbackHeaders == {CleanColumns(h) : h \in RawHeaders}

\* what a cell of the column named col may hold
CellsOf(col) ==
    IF IsPhotoName(Lower(col)) THEN FotoCells
    ELSE IF Contains(Lower(col), s_jenis) THEN JenisCells
    ELSE IdCells

FallbackRows(cols) == {r \in [DOMAIN cols -> IdCells \cup JenisCells \cup FotoCells] :
                          \A i \in DOMAIN cols : r[i] \in CellsOf(cols[i])}

InitFallback ==
    /\ pc = "extract"
    /\ columns \in FallbackHeaders
    /\ \E r \in FallbackRows(columns) : df = <<r>>
    /\ person_key = << >>
    /\ extracted = << >>
    /\ grouped = << >>
    /\ rowi = 0
    /\ gidx = 0
    /\ success = 0
    /\ outputs = << >>
    /\ insert_images = FALSE
    /\ enable_pdf = FALSE
    /\ fill = NoFill
    /\ pdf = NoPdf
    /\ dl = NoDl
    /\ cache = {}
    /\ calls = {}
    /\ printed = << >>

SpecFallback == InitFallback /\ [][NextExtract]_vars

----------------------------------------------------------------------------
(* Claims about the fallback scan, checked under SpecFallback *)

\* the columns whose name has the keywords of an attribute
NamedCols(cols, Name(_)) == {i \in DOMAIN cols : Name(Lower(cols[i]))}

\* the cell of the first column of S, NaN when S is empty
FirstCell(row, S) == IF S = {} THEN NaN ELSE row[Least(S)]

\* the one item whose attributes are the cells of the first columns named for
\* them; no item when the asset-id cell is not usable
ByFirstName(cols, row) ==
    LET id == FirstCell(row, NamedCols(cols, FallbackIdName))
    IN  IF ~IdAccepted(id) THEN << >>
        ELSE << [no    |-> TextOf(id),
                 jenis |-> TextOf(FirstCell(row, NamedCols(cols, FallbackJenisName))),
                 foto  |-> TextOf(FirstCell(row, NamedCols(cols, FallbackFotoName)))] >>

\* C14: when a column name matches "Asset N" the result is that of the
\* numbered scan alone; when none does, the result is at most one item, each
\* attribute the cell of the first column, in declaration order, whose name
\* has the attribute's keywords.
C14_FallbackOnlyWithoutNumbers ==
    pc = "extracted" =>
        IF asset_numbers(columns) # {}
        THEN extracted = NumberedAssets(columns, df[1], Sorted(asset_numbers(columns)))
        ELSE extracted = ByFirstName(columns, df[1])

\* v is the stripped cell of the first column, in declaration order, that is
\* named for the attribute and whose cell is usable; the empty string when
\* there is no such column
IsFirstUsable(v, cols, row, Name(_), Usable(_)) ==
    LET Hit(i) == Name(Lower(cols[i])) /\ Usable(row[i])
    IN  IF \E i \in DOMAIN cols : Hit(i)
        THEN \E i \in DOMAIN cols :
                /\ Hit(i)
                /\ \A j \in 1..(i - 1) : ~Hit(j)
                /\ v = Strip(Str(row[i]))
        ELSE v = << >>

\* C14 as the code has it: the fallback runs whenever the numbered scan gave
\* no item, also for a header with "Asset N" names; it gives at most one
\* item, and only when some asset-id column holds a usable id; each attribute
\* is taken from the first column, in declaration order, that is named for it
\* and holds a usable cell (asset id: not missing, not blank, not starting
\* with http; category and photo: not missing).
C14_FallbackWhenNoNumberedItem ==
    pc = "extracted" =>
        LET row      == df[1]
            numbered == NumberedAssets(columns, row, Sorted(asset_numbers(columns)))
            HasId    == \E i \in DOMAIN columns :
                            FallbackIdName(Lower(columns[i])) /\ IdAccepted(row[i])
        IN  IF numbered # << >> THEN extracted = numbered
            ELSE /\ Len(extracted) <= 1
                 /\ extracted # << >> <=> HasId
                 /\ extracted # << >> =>
                      /\ IsFirstUsable(extracted[1].no, columns, row, FallbackIdName, IdAccepted)
                      /\ IsFirstUsable(extracted[1].jenis, columns, row, FallbackJenisName, notna)
                      /\ IsFirstUsable(extracted[1].foto, columns, row, FallbackFotoName, notna)

\* C14 witness: the header has the "Asset 1" columns and the id column of slot
\* 1 twice; the cell of the first is empty, the numbered scan gives nothing,
\* and the fallback gives the item of the second id column.
C14_Witness ==
    /\ pc = "extracted"
    /\ asset_numbers(columns) = {1}
    /\ Len(columns) = 4
    /\ df[1][1] = NaN
    /\ Len(extracted) = 1
    /\ extracted[1].no = Strip(df[1][2])

----------------------------------------------------------------------------
(* Claims about the info of a group, checked under Spec *)

\* every group has the info of the first row of its key, and the running
\* fill_excel_template and generate_pdf calls are given the info of the group
\* they project
FirstRowInfo ==
    pc \in {"rows", "groups", "filling", "reporting", "done"} =>
        /\ \A g \in DOMAIN grouped :
             grouped[g].info = InfoOf(columns, df[FirstRow(grouped[g].key)])
        /\ fill.pc # "idle" => fill.info = grouped[gidx].info
        /\ pdf.pc # "idle" => pdf.info = grouped[gidx].info

\* a step leaves the info of every group there is as it was, and leaves its
\* items in place, with new items, if any, after them
InfoKept ==
    \A g \in DOMAIN grouped :
        /\ g \in DOMAIN grouped'
        /\ grouped'[g].key = grouped[g].key
        /\ grouped'[g].info = grouped[g].info
        /\ Len(grouped'[g].assets) >= Len(grouped[g].assets)
        /\ SubSeq(grouped'[g].assets, 1, Len(grouped[g].assets)) = grouped[g].assets

\* C15: first writer wins.  Once a group exists, no step changes its info; a
\* later row of its key only appends items; the info of a group, and the info
\* handed to fill_excel_template and generate_pdf for it, is that of the first
\* row of its key.
C15_FirstWriterWins == []FirstRowInfo /\ [][InfoKept]_vars

\* C15 witness: rows 1 and 2 are of one person and differ in Timestamp and
\* PIC; both have been grouped, and the group is being projected with the
\* info of row 1.
C15_Witness ==
    /\ pc = "filling"
    /\ Len(df) >= 2
    /\ person_key[1] = person_key[2]
    /\ InfoOf(columns, df[1]).PIC # InfoOf(columns, df[2]).PIC
    /\ InfoOf(columns, df[1]).Timestamp # InfoOf(columns, df[2]).Timestamp
    /\ gidx = 1
    /\ Len(grouped[1].assets) = 2
    /\ fill.info = InfoOf(columns, df[1])

----------------------------------------------------------------------------
(* Claim about the grouping key when a key field is missing *)

\* the key of row r with 'Unknown' for a key column that is not in the input
\* and for an empty cell
KeyWithDefaults(r) ==
    PersonKey(RowGet(columns, df[r], c_Nama, s_Unknown),
              RowGet(columns, df[r], c_Divisi, s_Unknown),
              RowGet(columns, df[r], c_Area, s_Unknown))

\* C16: the grouping key is defined for every row of every readable input.
\* When a key field is missing (an empty cell, or a column that is not in the
\* input) 'Unknown' stands for it, the key is computed and
\* generate_excel_consolidated goes on to group and write, raising no error.
C16_KeyAlwaysDefined ==
    /\ pc # "raised"
    /\ pc \in {"rows", "groups", "filling", "reporting", "done"} =>
         \A r \in DOMAIN df : person_key[r] = KeyWithDefaults(r)

----------------------------------------------------------------------------
(* Claim about the companion report, checked under SpecModes *)

\* the entries of the loop (groups in mode 1, responses in mode 2) for which
\* generate_pdf was called
Reported == {i \in DOMAIN outputs : outputs[i].report \in {"running", "created", "failed"}}

\* the number of entries the loop of this mode goes over
LoopLength == IF pc \in {"sep_rows", "sep_filling", "sep_reporting", "sep_done"}
              THEN Len(df) ELSE Len(grouped)

\* generate_pdf runs only for the entry whose fill has just returned True, and
\* only with PDF output on; an entry whose fill failed has no report; success
\* counts every filled entry that is past its report, failed reports included;
\* at the summary every entry has been attempted
ReportFollowsFill ==
    /\ pdf.pc # "idle" =>
         /\ enable_pdf
         /\ pc \in {"reporting", "sep_reporting"}
         /\ outputs # << >>
         /\ outputs[Len(outputs)].filled = "yes"
         /\ outputs[Len(outputs)].report = "running"
         /\ fill.pc = "idle"
    /\ \A i \in Reported : enable_pdf /\ outputs[i].filled = "yes"
    /\ \A i \in DOMAIN outputs :
         /\ outputs[i].filled \in {"running", "no"} => outputs[i].report = "none"
         /\ outputs[i].report = "created" => outputs[i].filled = "yes"
         /\ outputs[i].report = "running" => i = Len(outputs) /\ pdf.pc # "idle"
    /\ success = Cardinality(Counted)
    /\ pc \in {"done", "sep_done"} =>
         /\ Len(outputs) = LoopLength
         /\ \A i \in DOMAIN outputs : outputs[i].filled \in {"yes", "no"}

\* a step never lowers success, and the step in which a report fails counts
\* the entry and returns to the loop, at the entry after it
ReportFailureCounted ==
    /\ success' >= success
    /\ (pdf.pc = "ret" /\ ~pdf.result /\ pdf'.pc = "idle") =>
         /\ success' = success + 1
         /\ outputs'[Len(outputs)].report = "failed"
         /\ pc' \in {"groups", "sep_rows"}
         /\ gidx' = gidx /\ rowi' = rowi

\* C17: in both modes generate_pdf is attempted for a group or response only
\* after its spreadsheet was filled successfully and only when PDF output is
\* enabled; a report failure does not lower the success count and does not
\* keep the following entries from being processed; an entry whose fill
\* failed never gets a report.
C17_ReportOnlyAfterFill == []ReportFollowsFill /\ [][ReportFailureCounted]_vars

\* C17 witness: the run is at its summary; the report of the first entry
\* failed, the entry after it was filled all the same, and both are counted.
C17_Witness ==
    /\ pc \in {"done", "sep_done"}
    /\ Len(outputs) >= 2
    /\ outputs[1].report = "failed"
    /\ outputs[2].filled = "yes"
    /\ success = 2

====
